---- MODULE Spec2Model ----
(***************************************************************************)
(* Model of the two RL exercise notebooks:                                 *)
(*   notebook 1 (rl_exercise01.ipynb): random_rollout, rollout_policy,     *)
(*       sample_policy, run on one CartPole environment handle;            *)
(*   notebook 2 (RL Exercise 2): TwoLayerPolicy, rollout_policy,           *)
(*       evaluate_random_policy and the best-of-N cell.                    *)
(* gym and ray are external: the environment is a nondeterministic         *)
(* reset/step machine, a remote call is a task that runs on its own.       *)
(***************************************************************************)
EXTENDS Integers, Sequences, FiniteSets, TLC

\* ------------------------------------------------------------------ bounds
\* Longest episode of the time-limited environment (200 in CartPole-v0), and
\* the number of steps explored of an environment that has no limit.
MaxEpisodeSteps == 2
\* Largest num_rollouts argument (the notebook passes 10 and 100).
MaxRollouts == 2
\* Largest number of submitted evaluation units (the notebook submits 100).
MaxUnits == 2

\* ------------------------------------------------- TwoLayerPolicy's shape
NumInputs == 4
NumHiddens == 5
NumOutputs == 1

\* Values a sampled weight, and a component of an observed state, can take.
WeightVals == {-1, 0, 1}
StateVals == {-1, 0, 1}

\* ------------------------------------------------------------ numpy helpers
RECURSIVE DotUpTo(_, _, _)
DotUpTo(w, x, n) == IF n = 0 THEN 0 ELSE DotUpTo(w, x, n - 1) + w[n] * x[n]

\* np.dot of two vectors of equal length.
Dot(w, x) == DotUpTo(w, x, Len(w))

\* np.maximum(v, 0) on one component.
Relu(v) == IF v > 0 THEN v ELSE 0

\* A state vector whose components are all x.
Vec(x) == [i \in 1..NumInputs |-> x]

StateSpace == {Vec(x) : x \in StateVals}

\* ---------------------------------------------------------- TwoLayerPolicy
\* TwoLayerPolicy.__init__: four arrays of the given shapes. The sampled
\* values are a, b (rows of weights1, alternating), c, d and e.
TwoLayerPolicy(a, b, c, d, e) ==
    [weights1 |-> [h \in 1..NumHiddens |->
                      [i \in 1..NumInputs |-> IF h % 2 = 1 THEN a ELSE b]],
     biases1  |-> [h \in 1..NumHiddens |-> c],
     weights2 |-> [o \in 1..NumOutputs |-> [h \in 1..NumHiddens |-> d]],
     biases2  |-> [o \in 1..NumOutputs |-> e]]

\* The policies np.random.normal is taken to produce when the forward pass is explored on its own.
PolicySpace ==
    {TwoLayerPolicy(a, b, c, d, e) :
        a \in WeightVals, b \in WeightVals, c \in WeightVals,
        d \in WeightVals, e \in WeightVals}

\* The policies an evaluation samples from: the all-zero policy, one whose
\* output is always negative, and one whose action depends on the state.
PolicySamples ==
    {TwoLayerPolicy(0, 0, 0, 0, 0),
     TwoLayerPolicy(0, 0, 0, 0, -1),
     TwoLayerPolicy(1, 1, 0, 1, -1)}

\* hiddens = np.maximum(np.dot(self.weights1, state) + self.biases1, 0)
Hiddens(p, state) ==
    [h \in 1..NumHiddens |-> Relu(Dot(p.weights1[h], state) + p.biases1[h])]

\* output = np.dot(self.weights2, hiddens) + self.biases2
Output(p, state) ==
    [o \in 1..NumOutputs |-> Dot(p.weights2[o], Hiddens(p, state)) + p.biases2[o]]

\* A forward pass that thresholds at <= 0 instead of < 0.
ThresholdNonPositive(out) == IF out <= 0 THEN 0 ELSE 1

\* return 0 if output[0] < 0 else 1
Threshold(out) == IF out < 0 THEN 0 ELSE 1

\* TwoLayerPolicy.__call__
PolicyCall(p, state) == Threshold(Output(p, state)[1])

\* A call that leaves its output in biases2.
PolicyAfterCallKeepsOutput(w, state) == [w EXCEPT !.biases2 = Output(w, state)]

\* The policy's arrays after a call: __call__ assigns to none of them.
PolicyAfterCall(w, state) == w

\* sample_policy of notebook 1.
sample_policy(state) == IF state[1] < 0 THEN 0 ELSE 1

\* -------------------------------------------------------------- arithmetic
RECURSIVE SumUpTo(_, _)
SumUpTo(xs, n) == IF n = 0 THEN 0 ELSE SumUpTo(xs, n - 1) + xs[n]

\* Python's sum(R), and the sum np.mean takes of its list.
Sum(xs) == SumUpTo(xs, Len(xs))

\* A float that is a quotient of two integers is kept as the quotient.
Quot(n, d) == [num |-> n, den |-> d]

\* q1 <= q2 and q1 = q2 on quotients with positive denominators.
QLeq(q1, q2) == q1.num * q2.den <= q2.num * q1.den
QEq(q1, q2) == q1.num * q2.den = q2.num * q1.den

\* The mean of all elements but the first.
MeanDropFirst(xs) ==
    IF Len(xs) > 1 THEN Quot(Sum(Tail(xs)), Len(xs) - 1) ELSE Quot(Sum(xs), Len(xs))

\* np.mean of a non-empty list of numbers.
Mean(xs) == Quot(Sum(xs), Len(xs))

\* ------------------------------------------------------------ environment
\* The handle gym.make returns, before its first reset. id numbers the
\* handles made; paid, late and resets are bookkeeping of the environment's
\* side: the rewards it has paid since the last reset, the step calls it has
\* received on an episode that had already reported done, and the reset
\* calls it has received.
gym_make(id, limited) ==
    [id |-> id, limited |-> limited, state |-> Vec(0), steps |-> 0,
     done |-> FALSE, paid |-> 0, late |-> 0, resets |-> 0]

NoEnv == gym_make(0, TRUE)

\* A rollout that goes on from where the environment is.
EnvResetMissing(e, s0) == e

\* env.reset(): a new episode starting in state s0.
EnvReset(e, s0) ==
    [e EXCEPT !.state = s0, !.steps = 0, !.done = FALSE, !.paid = 0,
              !.resets = @ + 1]

\* What a step may report as done: a time-limited environment ends the
\* episode at its limit at the latest.
DoneChoices(e) ==
    IF e.limited /\ e.steps + 1 >= MaxEpisodeSteps THEN {TRUE} ELSE BOOLEAN

\* The reward of one step: 1 while the pole is upright, 0 once it has fallen.
Rewards == {0, 1}

\* env.step(action) with the outcome (s1, r, d) the simulator produced.
EnvStep(e, s1, r, d) ==
    [e EXCEPT !.state = s1, !.steps = @ + 1, !.done = d, !.paid = @ + r,
              !.late = IF e.done THEN 1 ELSE @]

\* ------------------------------------------------------------------ state
VARIABLES
    prog,       \* what runs: "notebook1", "evaluate", "forward" or "best_of_n"
    pc,         \* where it is
    limited,    \* whether the environments handed out are time-limited
    numRollouts, \* evaluate_random_policy's num_rollouts
    calls,      \* the rollout calls still to make, in order
    fn,         \* the rollout function running or last run
    env,        \* the environment handle
    policy,     \* the policy object
    frame,      \* the running rollout's locals
    action,     \* the action last chosen
    query,      \* the last policy query: the state passed, the environment's state
    callLog,    \* the (state, action) pairs of the current policy object's calls
    ret,        \* the value the last rollout returned
    rewards,    \* evaluate_random_policy's list of rollout returns
    result,     \* evaluate_random_policy's return value
    made,       \* how many policies and environments were constructed
    used,       \* the policy and environment ids the rollouts were called with
    paidLog,    \* the rewards the environment paid over the finished rollouts
    numUnits,   \* how many evaluation units the driver submits
    units,      \* the submitted units
    finished,   \* the units in the order they finished
    returns,    \* the (weights, value) pairs a unit's rollout can return
    scores,     \* what ray.get returned
    best        \* the printed maximum

workerVars == <<limited, numRollouts, calls, fn, env, policy, frame, action, query,
                callLog, ret, rewards, result, made, used, paidLog>>
driverVars == <<numUnits, units, returns, finished, scores, best>>
vars == <<prog, pc, workerVars, driverVars>>

\* --------------------------------------------------------------- policies
NoWeights == [weights1 |-> <<>>, biases1 |-> <<>>, weights2 |-> <<>>, biases2 |-> <<>>]
NoPolicy == [kind |-> "none", id |-> 0, w |-> NoWeights]
\* The function sample_policy, passed as the policy in notebook 1.
SamplePolicyFn == [kind |-> "sample_policy", id |-> 0, w |-> NoWeights]
\* A TwoLayerPolicy object: the id numbers the objects constructed.
PolicyObject(id, w) == [kind |-> "TwoLayerPolicy", id |-> id, w |-> w]

\* policy(state) for whichever callable was passed.
Apply(p, state) ==
    IF p.kind = "TwoLayerPolicy" THEN PolicyCall(p.w, state) ELSE sample_policy(state)

\* ---------------------------------------------------------------- rollouts
\* The locals of a rollout after the lines before its loop: state (s in
\* notebook 1's rollout_policy), s_, done, cumulative_reward and R.
NewFrame(s0) ==
    [state |-> s0, s_ |-> s0, done |-> FALSE, cumulative_reward |-> 0, R |-> <<>>]

NoFrame == NewFrame(Vec(0))

\* A loop that also stops after one iteration.
LoopOnce(f) == ~f.done /\ f.cumulative_reward = 0 /\ f.R = <<>>

\* while not done
LoopContinues(f) == ~f.done

\* The actions the loop body may choose: np.random.choice([0, 1]) in
\* random_rollout, policy(state) in rollout_policy.
ChooseAction(name, p, f) ==
    IF name = "random_rollout" THEN {0, 1} ELSE {Apply(p, f.state)}

\* A body that adds the reward only when the step did not end the episode.
LoopBodySkipLast(name, f, s1, r, d) ==
    IF name = "rollout_policy_nb1"
    THEN [f EXCEPT !.s_ = s1, !.done = d, !.R = IF d THEN @ ELSE Append(@, r)]
    ELSE [f EXCEPT !.state = s1, !.done = d,
                   !.cumulative_reward = IF d THEN @ ELSE @ + r]

\* A body that adds every reward twice.
LoopBodyCountsTwice(name, f, s1, r, d) ==
    IF name = "rollout_policy_nb1"
    THEN [f EXCEPT !.s_ = s1, !.done = d, !.R = Append(Append(@, r), r)]
    ELSE [f EXCEPT !.state = s1, !.done = d, !.cumulative_reward = @ + r + r]

\* The loop body after the action is chosen, given what env.step returned:
\* notebook 1's rollout_policy assigns the new state to s_ and appends the
\* reward to R; the others assign it to state and add the reward.
LoopBody(name, f, s1, r, d) ==
    IF name = "rollout_policy_nb1"
    THEN [f EXCEPT !.s_ = s1, !.done = d, !.R = Append(@, r)]
    ELSE [f EXCEPT !.state = s1, !.done = d, !.cumulative_reward = @ + r]

\* return sum(R) / return cumulative_reward
ReturnValue(name, f) ==
    IF name = "rollout_policy_nb1" THEN Sum(f.R) ELSE f.cumulative_reward

\* ------------------------------------------------------------- initial state
NoQuery == [asked |-> FALSE, passed |-> Vec(0), current |-> Vec(0)]
NoUnit == [pc |-> "none", policy |-> NoPolicy, rewards |-> <<>>, result |-> Quot(0, 1)]

\* The four rollout calls of notebook 1's cells, in order.
Notebook1Calls ==
    <<"random_rollout", "random_rollout", "rollout_policy_nb1", "rollout_policy_nb1">>

WorkerIdle ==
    /\ calls = <<>>
    /\ fn = "none"
    /\ env = NoEnv
    /\ policy = NoPolicy
    /\ frame = NoFrame
    /\ action = 0
    /\ query = NoQuery
    /\ callLog = {}
    /\ ret = 0
    /\ rewards = <<>>
    /\ result = Quot(0, 1)
    /\ made = [policies |-> 0, envs |-> 0]
    /\ used = [policies |-> {}, envs |-> {}, rollouts |-> 0]
    /\ paidLog = 0

DriverIdle ==
    /\ numUnits = 0
    /\ units = [u \in 1..MaxUnits |-> NoUnit]
    /\ returns = {}
    /\ finished = <<>>
    /\ scores = <<>>
    /\ best = Quot(0, 1)

\* A worker process about to run notebook 1's cells, or one call of
\* evaluate_random_policy(num_rollouts), on CartPole-v0.
Init ==
    /\ prog \in {"notebook1", "evaluate"}
    /\ pc = "start"
    /\ limited = TRUE
    /\ numRollouts \in 1..MaxRollouts
    /\ prog = "notebook1" => numRollouts = 1
    /\ WorkerIdle
    /\ DriverIdle

\* ------------------------------------------------------- notebook 1's cells
\* env = gym.make('CartPole-v0')
MakeEnv ==
    /\ prog = "notebook1" /\ pc = "start"
    /\ env' = gym_make(made.envs + 1, limited)
    /\ made' = [made EXCEPT !.envs = @ + 1]
    /\ pc' = "cell_reset"
    /\ UNCHANGED <<prog, limited, numRollouts, calls, fn, policy, frame, action, query,
                   callLog, ret, rewards, result, used, paidLog, driverVars>>

\* state = env.reset()
CellReset ==
    /\ pc = "cell_reset"
    /\ \E s0 \in StateSpace : env' = EnvReset(env, s0)
    /\ pc' = "cell_step"
    /\ UNCHANGED <<prog, limited, numRollouts, calls, fn, policy, frame, action, query,
                   callLog, ret, rewards, result, made, used, paidLog, driverVars>>

\* action = 0; state, reward, done, info = env.step(action); then the cells
\* that define the rollout functions and sample_policy and call them.
CellStep ==
    /\ pc = "cell_step"
    /\ \E s1 \in StateSpace, r \in Rewards, d \in DoneChoices(env) :
           env' = EnvStep(env, s1, r, d)
    /\ action' = 0
    /\ calls' = Notebook1Calls
    /\ policy' = SamplePolicyFn
    /\ pc' = "ready"
    /\ UNCHANGED <<prog, limited, numRollouts, fn, frame, query,
                   callLog, ret, rewards, result, made, used, paidLog, driverVars>>

\* ------------------------------------------------- evaluate_random_policy
\* A list comprehension that makes one call too many.
RolloutCallsOneMore(k) == [i \in 1..(k + 1) |-> "rollout_policy_nb2"]

\* [rollout_policy(env, policy) for _ in range(num_rollouts)]
RolloutCalls(k) == [i \in 1..k |-> "rollout_policy_nb2"]

\* policy = TwoLayerPolicy(4, 5); env = gym.make('CartPole-v0'); then the list
\* comprehension of num_rollouts calls.
EvalStart ==
    /\ prog = "evaluate" /\ pc = "start"
    /\ \E w \in PolicySamples : policy' = PolicyObject(made.policies + 1, w)
    /\ env' = gym_make(made.envs + 1, limited)
    /\ made' = [policies |-> made.policies + 1, envs |-> made.envs + 1]
    /\ calls' = RolloutCalls(numRollouts)
    /\ callLog' = {}
    /\ rewards' = <<>>
    /\ pc' = "ready"
    /\ UNCHANGED <<prog, limited, numRollouts, fn, frame, action, query,
                   ret, result, used, paidLog, driverVars>>

\* ----------------------------------------------------- a rollout, by steps
\* The call and the lines before the loop: env.reset() and the locals.
RolloutBegin ==
    /\ pc = "ready" /\ calls # <<>>
    /\ fn' = Head(calls)
    /\ calls' = Tail(calls)
    /\ \E s0 \in StateSpace :
          /\ env' = EnvReset(env, s0)
          /\ frame' = NewFrame(s0)
    /\ query' = NoQuery
    /\ used' = [policies |-> IF Head(calls) = "random_rollout" THEN used.policies
                             ELSE used.policies \cup {policy.id},
                envs |-> used.envs \cup {env.id},
                rollouts |-> used.rollouts + 1]
    /\ pc' = "loop"
    /\ UNCHANGED <<prog, limited, numRollouts, policy, action, callLog, ret, rewards,
                   result, made, paidLog, driverVars>>

\* One iteration of the while loop: choose the action, step, accumulate.
Iterate ==
    /\ pc = "loop" /\ LoopContinues(frame)
    /\ env.steps < MaxEpisodeSteps
    /\ \E a \in ChooseAction(fn, policy, frame), s1 \in StateSpace,
          r \in Rewards, d \in DoneChoices(env) :
          /\ action' = a
          /\ env' = EnvStep(env, s1, r, d)
          /\ frame' = LoopBody(fn, frame, s1, r, d)
          /\ callLog' = IF fn # "random_rollout" /\ policy.kind = "TwoLayerPolicy"
                        THEN callLog \cup {<<frame.state, a>>} ELSE callLog
    /\ policy' = IF fn # "random_rollout" /\ policy.kind = "TwoLayerPolicy"
                 THEN [policy EXCEPT !.w = PolicyAfterCall(@, frame.state)]
                 ELSE policy
    /\ query' = IF fn = "random_rollout" THEN query
                ELSE [asked |-> TRUE, passed |-> frame.state, current |-> env.state]
    /\ UNCHANGED <<prog, pc, limited, numRollouts, calls, fn, ret, rewards,
                   result, made, used, paidLog, driverVars>>

\* The loop ends and the function returns.
Return ==
    /\ pc = "loop" /\ ~LoopContinues(frame)
    /\ ret' = ReturnValue(fn, frame)
    /\ paidLog' = paidLog + env.paid
    /\ pc' = "returned"
    /\ UNCHANGED <<prog, limited, numRollouts, calls, fn, env, policy, frame, action,
                   query, callLog, rewards, result, made, used, driverVars>>

\* The caller takes the value: notebook 1 prints it, the list comprehension
\* of evaluate_random_policy collects it.
Receive ==
    /\ pc = "returned"
    /\ rewards' = IF prog = "evaluate" THEN Append(rewards, ret) ELSE rewards
    /\ pc' = "ready"
    /\ UNCHANGED <<prog, limited, numRollouts, calls, fn, env, policy, frame, action,
                   query, callLog, ret, result, made, used, paidLog, driverVars>>

\* Notebook 1 has run its last cell.
NotebookEnd ==
    /\ prog = "notebook1" /\ pc = "ready" /\ calls = <<>>
    /\ pc' = "finished"
    /\ UNCHANGED <<prog, workerVars, driverVars>>

\* return np.mean([...])
EvalReturn ==
    /\ prog = "evaluate" /\ pc = "ready" /\ calls = <<>>
    /\ result' = Mean(rewards)
    /\ pc' = "finished"
    /\ UNCHANGED <<prog, limited, numRollouts, calls, fn, env, policy, frame, action,
                   query, callLog, ret, rewards, made, used, paidLog, driverVars>>

Next ==
    \/ MakeEnv \/ CellReset \/ CellStep
    \/ EvalStart
    \/ RolloutBegin \/ Iterate \/ Return \/ Receive
    \/ NotebookEnd \/ EvalReturn

Spec == Init /\ [][Next]_vars

\* A process that runs keeps running: every enabled step is eventually taken.
\* The environment passed to a rollout may or may not be time-limited.
LiveInit ==
    /\ prog \in {"notebook1", "evaluate"}
    /\ pc = "start"
    /\ limited \in BOOLEAN
    /\ numRollouts = 1
    /\ WorkerIdle
    /\ DriverIdle

LiveSpec == LiveInit /\ [][Next]_vars /\ WF_vars(Next)

\* ------------------------------------------- the forward pass on its own
\* The cell under the class: policy = TwoLayerPolicy(4, 5), with any weights.
PolicyInit ==
    /\ prog = "forward"
    /\ pc = "start"
    /\ limited = TRUE
    /\ numRollouts = 1
    /\ WorkerIdle
    /\ DriverIdle

Construct ==
    /\ prog = "forward" /\ pc = "start"
    /\ \E w \in PolicySpace : policy' = PolicyObject(made.policies + 1, w)
    /\ made' = [made EXCEPT !.policies = @ + 1]
    /\ pc' = "constructed"
    /\ UNCHANGED <<prog, limited, numRollouts, calls, fn, env, frame, action, query,
                   callLog, ret, rewards, result, used, paidLog, driverVars>>

\* action = policy(state), for any state.
Call ==
    /\ prog = "forward" /\ pc \in {"constructed", "called"}
    /\ \E x \in StateSpace :
          /\ action' = PolicyCall(policy.w, x)
          /\ query' = [asked |-> TRUE, passed |-> x, current |-> x]
          /\ policy' = [policy EXCEPT !.w = PolicyAfterCall(@, x)]
    /\ pc' = "called"
    /\ UNCHANGED <<prog, limited, numRollouts, calls, fn, env, frame,
                   callLog, ret, rewards, result, made, used, paidLog, driverVars>>

PolicyNext == Construct \/ Call

PolicySpec == PolicyInit /\ [][PolicyNext]_vars

\* ------------------------------------------------------------ best of N
\* The values one rollout can return, from the locals f and the environment
\* e on: the loop of Iterate and Return, run to its end over every outcome
\* the environment can produce.
RECURSIVE RolloutOutcomes(_, _, _, _)
RolloutOutcomes(name, p, e, f) ==
    IF ~LoopContinues(f) THEN {ReturnValue(name, f)}
    ELSE IF e.steps >= MaxEpisodeSteps THEN {}
    ELSE UNION {RolloutOutcomes(name, p, EnvStep(e, s1, r, d), LoopBody(name, f, s1, r, d)) :
                    s1 \in StateSpace, r \in Rewards, d \in DoneChoices(e)}

\* rollout_policy(env, policy) of notebook 2 on a CartPole-v0 handle: the
\* pairs of a policy an evaluation can sample and a value its rollout returns.
RolloutReturns ==
    UNION {{<<w, r>> : r \in RolloutOutcomes("rollout_policy_nb2", PolicyObject(1, w),
                                             EnvReset(gym_make(1, TRUE), s0), NewFrame(s0))} :
               w \in PolicySamples, s0 \in StateSpace}

\* The values a rollout with the weights w can return.
ReturnsOf(w) == {q[2] : q \in {q \in returns : q[1] = w}}

\* A maximum that keeps the last item.
PyMaxLast(xs) == xs[Len(xs)]

\* Python's max on a non-empty list: the first largest item.
RECURSIVE PyMaxUpTo(_, _)
PyMaxUpTo(xs, n) ==
    IF n = 1 THEN xs[1]
    ELSE LET m == PyMaxUpTo(xs, n - 1) IN IF QLeq(xs[n], m) THEN m ELSE xs[n]

PyMax(xs) == PyMaxUpTo(xs, Len(xs))

\* A get that returns as soon as one result is there.
AnyReady(us, n) == \E u \in 1..n : us[u].pc = "done"

\* ray.get on the list of object ids blocks until every result is there.
AllReady(us, n) == \A u \in 1..n : us[u].pc = "done"

\* The driver about to run the best-of-N cell.
BestInit ==
    /\ prog = "best_of_n"
    /\ pc = "submit"
    /\ limited = TRUE
    /\ numRollouts \in 1..MaxRollouts
    /\ WorkerIdle
    /\ numUnits \in 1..MaxUnits
    /\ units = [u \in 1..MaxUnits |-> NoUnit]
    /\ returns = RolloutReturns
    /\ finished = <<>>
    /\ scores = <<>>
    /\ best = Quot(0, 1)

Submitted == Cardinality({u \in 1..MaxUnits : units[u].pc # "none"})

\* evaluate_random_policy.remote(num_rollouts): the next unit is submitted.
Submit ==
    /\ prog = "best_of_n" /\ pc = "submit"
    /\ units' = [units EXCEPT ![Submitted + 1].pc = "pending"]
    /\ pc' = IF Submitted + 1 = numUnits THEN "get" ELSE "submit"
    /\ UNCHANGED <<prog, workerVars, numUnits, returns, finished, scores, best>>

\* A worker takes the unit: it samples its policy and makes its environment.
UnitStart(u) ==
    /\ units[u].pc = "pending"
    /\ \E w \in PolicySamples :
          units' = [units EXCEPT ![u].pc = "running", ![u].policy = PolicyObject(u, w)]
    /\ UNCHANGED <<prog, pc, workerVars, numUnits, returns, finished, scores, best>>

\* The unit runs to its end: the rollout_policy calls of its list
\* comprehension, each from its reset to its return, and return np.mean([...]).
\* The result goes to the object store; the unit's policy, environment and
\* list are gone.
UnitRun(u) ==
    /\ units[u].pc = "running"
    /\ \E rs \in [1..Len(RolloutCalls(numRollouts)) -> ReturnsOf(units[u].policy.w)] :
          units' = [units EXCEPT ![u] = [pc |-> "done", policy |-> NoPolicy,
                                         rewards |-> <<>>, result |-> Mean(rs)]]
    /\ finished' = Append(finished, u)
    /\ UNCHANGED <<prog, pc, workerVars, numUnits, returns, scores, best>>

\* scores = ray.get([...]): the results, in the order of submission.
Get ==
    /\ prog = "best_of_n" /\ pc = "get"
    /\ AllReady(units, numUnits)
    /\ scores' = [i \in 1..numUnits |-> units[i].result]
    /\ pc' = "got"
    /\ UNCHANGED <<prog, workerVars, numUnits, units, returns, finished, best>>

\* print(max(scores))
PrintBest ==
    /\ prog = "best_of_n" /\ pc = "got"
    /\ best' = PyMax(scores)
    /\ pc' = "printed"
    /\ UNCHANGED <<prog, workerVars, numUnits, units, returns, finished, scores>>

BestNext ==
    \/ Submit
    \/ \E u \in 1..MaxUnits : UnitStart(u) \/ UnitRun(u)
    \/ Get
    \/ PrintBest

BestSpec == BestInit /\ [][BestNext]_vars

\* ------------------------------------------------------------------ claims

\* C1: in every iteration of rollout_policy (notebook 1's and notebook 2's),
\* the state passed to the policy is the environment's current state: the one
\* env.reset() returned for the first query, the one the preceding env.step()
\* returned for every later query.
C1_QueryIsCurrentState == query.asked => query.passed = query.current

\* C2: a rollout returns exactly the sum of the rewards of the env.step calls
\* it made, which are the steps from the reset up to and including the first
\* one that reports done: none after it, no reward dropped or counted twice.
C2_ReturnIsSumOfStepRewards ==
    pc = "returned" =>
        /\ ret = env.paid
        /\ env.done
        /\ env.late = 0
        /\ env.steps >= 1

C2_Witness ==
    /\ pc = "returned"
    /\ fn = "rollout_policy_nb1"
    /\ env.steps >= 2
    /\ ret >= 1
    /\ ret < env.steps

\* C10: the only exit of the rollout loop is the environment's done: a
\* rollout returns only right after the first step that reports done, it does
\* return once a step has reported done, and while no step reports done it
\* does not return.
C10_ExitOnlyOnDone ==
    /\ [][pc = "loop" /\ pc' = "returned" => frame.done /\ env.done /\ env.late = 0]_vars
    /\ [](pc = "returned" => env.done)
    /\ (pc = "loop" /\ env.done) ~> (pc = "returned")

C10_Witness ==
    /\ ~limited
    /\ pc = "loop"
    /\ ~env.done
    /\ env.steps = MaxEpisodeSteps

\* The score q lies within 0..MaxEpisodeSteps.
WithinEpisodeLength(q) == QLeq(Quot(0, 1), q) /\ QLeq(q, Quot(MaxEpisodeSteps, 1))

\* C3: on an environment that pays 0 or 1 per step and reports done by its
\* MaxEpisodeSteps-th step (200 for CartPole-v0), every value rollout_policy
\* returns is within 0..MaxEpisodeSteps, and so is every mean
\* evaluate_random_policy returns and the best score max(scores).
C3_ScoresWithinEpisodeLength ==
    /\ \A q \in returns : 0 <= q[2] /\ q[2] <= MaxEpisodeSteps
    /\ \A u \in 1..MaxUnits : units[u].pc = "done" => WithinEpisodeLength(units[u].result)
    /\ \A i \in 1..Len(scores) : WithinEpisodeLength(scores[i])
    /\ pc = "printed" => WithinEpisodeLength(best)

C3_Witness ==
    /\ pc = "printed"
    /\ \E q \in returns : q[2] = MaxEpisodeSteps
    /\ numUnits >= 2
    /\ QEq(best, Quot(MaxEpisodeSteps, 1))
    /\ \E i \in 1..Len(scores) : scores[i].num = 0

\* W2 . max(W1 . x + b1, 0) + b2, written out.
C4_Output(w, x) ==
    LET pre == [h \in 1..NumHiddens |-> Dot(w.weights1[h], x) + w.biases1[h]]
        hid == [h \in 1..NumHiddens |-> IF pre[h] >= 0 THEN pre[h] ELSE 0]
    IN  Dot(w.weights2[1], hid) + w.biases2[1]

\* C4: TwoLayerPolicy.__call__ returns 0 exactly when
\* W2 . max(W1 . state + b1, 0) + b2 is strictly negative and 1 otherwise; an
\* output of exactly 0 gives action 1, so the all-zero policy returns 1 for
\* every state.
C4_ThresholdRule ==
    prog = "forward" /\ pc = "called" =>
        /\ action = 0 <=> C4_Output(policy.w, query.passed) < 0
        /\ action = 1 <=> C4_Output(policy.w, query.passed) >= 0
        /\ policy.w = TwoLayerPolicy(0, 0, 0, 0, 0) => action = 1

C4_Witness ==
    /\ prog = "forward" /\ pc = "called"
    /\ policy.w # TwoLayerPolicy(0, 0, 0, 0, 0)
    /\ query.passed # Vec(0)
    /\ C4_Output(policy.w, query.passed) = 0
    /\ action = 1

\* C5: the weights of a TwoLayerPolicy are fixed once sampled: no call and no
\* rollout changes them, so two calls of the same policy object with the same
\* state return the same action, whatever happens in between.
C5_WeightsFixed ==
    /\ [][policy.kind = "TwoLayerPolicy" => policy' = policy]_vars
    /\ [](\A c1 \in callLog, c2 \in callLog : c1[1] = c2[1] => c1[2] = c2[2])

C5_Witness ==
    /\ policy.kind = "TwoLayerPolicy"
    /\ used.rollouts >= 2
    /\ \E c1 \in callLog, c2 \in callLog : c1[2] # c2[2]

\* C7: one call of evaluate_random_policy(K), K >= 1, samples exactly one
\* fresh policy, performs exactly K rollouts, all with that policy and the
\* same environment handle, and returns the sum of the K rollout returns
\* (the rewards the environment paid in them) divided by K.
C7_MeanOfKRollouts ==
    prog = "evaluate" /\ pc = "finished" =>
        /\ made.policies = 1
        /\ used.rollouts = numRollouts
        /\ Len(rewards) = numRollouts
        /\ used.policies = {policy.id}
        /\ used.envs = {env.id}
        /\ result = Quot(paidLog, numRollouts)

C7_Witness ==
    /\ prog = "evaluate" /\ pc = "finished"
    /\ numRollouts >= 2
    /\ result.num >= 1

\* The list xs in the order perm.
Permuted(xs, perm) == [i \in 1..Len(xs) |-> xs[perm[i]]]

\* C9: the mean evaluate_random_policy returns is the same for every order in
\* which its K rollout returns could have been produced.
C9_MeanOrderIndependent ==
    prog = "evaluate" /\ pc = "finished" =>
        \A perm \in Permutations(1..Len(rewards)) :
            Mean(Permuted(rewards, perm)) = result

C9_Witness ==
    /\ prog = "evaluate" /\ pc = "finished"
    /\ \E i \in 1..Len(rewards), j \in 1..Len(rewards) : rewards[i] < rewards[j]

\* C6: for every number N >= 1 of submitted units and every order in which
\* they run and finish, the best score is reported only after all N units
\* have returned, and it is the maximum of the N units' means.
C6_BestIsMaxOfAllUnits ==
    pc = "printed" =>
        /\ \A u \in 1..numUnits : units[u].pc = "done"
        /\ Len(scores) = numUnits
        /\ \E u \in 1..numUnits : best = units[u].result
        /\ \A u \in 1..numUnits : QLeq(units[u].result, best)

C6_Witness ==
    /\ pc = "printed"
    /\ numUnits >= 2
    /\ finished[1] # 1
    /\ best = units[1].result
    /\ \E u \in 1..numUnits : ~QLeq(best, units[u].result)

\* C8: the best-of-N result does not decrease as N grows: the maximum over
\* the first N+1 scores is at least the maximum over the first N, N >= 1.
C8_BestOfNMonotone ==
    pc \in {"got", "printed"} =>
        \A n \in 1..(Len(scores) - 1) :
            QLeq(PyMax(SubSeq(scores, 1, n)), PyMax(SubSeq(scores, 1, n + 1)))

C8_Witness ==
    /\ pc = "got"
    /\ Len(scores) >= 2
    /\ ~QLeq(scores[2], scores[1])
    /\ PyMax(SubSeq(scores, 1, 2)) = scores[2]

\* The env.reset() calls of notebook 1's own cell, made before any rollout.
CellResets == IF prog = "notebook1" /\ pc \notin {"start", "cell_reset"} THEN 1 ELSE 0

\* C11: over any sequence of rollouts on one environment handle, every
\* rollout calls env.reset() exactly once, before its first env.step(), and
\* takes at least one step; so env.step() is never called on an episode that
\* has reported done without an env.reset() in between.
C11_ResetOncePerRollout ==
    /\ [][pc = "ready" /\ pc' = "loop" =>
              env'.resets = env.resets + 1 /\ env'.steps = 0 /\ ~env'.done]_vars
    /\ [][pc = "loop" => env'.resets = env.resets]_vars
    /\ [][pc = "loop" /\ pc' = "returned" => env.steps >= 1]_vars
    /\ [](prog \in {"notebook1", "evaluate"} => env.resets = used.rollouts + CellResets)
    /\ [](env.late = 0)

C11_Witness ==
    /\ prog = "evaluate"
    /\ pc = "returned"
    /\ used.rollouts >= 2
    /\ env.resets = used.rollouts
    /\ env.steps >= 2

====
